---- MODULE Spec2Model ----
(***************************************************************************)
(* A model of getattrlistbulk-rs: the DirEntries iterator (src/src/iter.rs), *)
(* the BufferParser (src/src/parser.rs), the RequestedAttributes to         *)
(* attrlist conversion (src/src/types.rs), the entry points (src/src/lib.rs, *)
(* src/src/builder.rs) and the kernel side of the getattrlistbulk call      *)
(* (src/src/ffi.rs), which fills the buffer the iterator hands it.          *)
(*                                                                         *)
(* Wire integers are kept as their native-endian (little-endian) byte       *)
(* tuples: a u32 is a 4-tuple of bytes, a u64 an 8-tuple.  A tuple is turned *)
(* into a number only where the code does arithmetic with it (lengths and   *)
(* offsets).                                                               *)
(***************************************************************************)
EXTENDS Integers, Sequences, FiniteSets, Bags, TLC

\* ------------------------------------------------------------- the state

VARIABLES
    directory,        \* kernel: the objects of the directory at "/dir", in its order
    dirPos,           \* kernel: how many of them the open handle has enumerated
    fdOpen,           \* kernel: whether the descriptor of the handle is open
    closes,           \* kernel: close(2) calls made on the descriptor
    pc,               \* "new": no stream yet; "idle": a stream, no pull running;
                      \* "syscall": a pull is inside getattrlistbulk;
                      \* "open_failed", "panicked", "dropped"
    dirfd,            \* DirEntries.dirfd
    buffer,           \* DirEntries.buffer
    bytes_valid,      \* DirEntries.bytes_valid
    parser_offset,    \* DirEntries.parser_offset
    requested,        \* DirEntries.requested
    exhausted,        \* DirEntries.exhausted
    follow_symlinks,  \* DirEntries.follow_symlinks
    call,             \* the arguments of the bulk call issued last
    result,           \* what the bulk call issued last returned ("pending" inside it)
    last,             \* what the caller got last: <<"new">> before any call,
                      \* <<"stream">> or <<"open_error", e>> from the construction,
                      \* <<"pull", item>> from a pull
    yielded,          \* history: the items the pulls returned, in order
    pulls,            \* history: pulls begun
    intr,             \* history: interrupted bulk calls of the running pull, up to
                      \* MaxIntr; 0 between pulls
    open_path,        \* history: the path the constructor was called with
    overflow_checks,  \* the build: TRUE when integer overflow panics (debug
                      \* profile), FALSE when it wraps (release profile)
    reader,           \* the DirReader being configured: path, attrs, buffer_size,
                      \* follow_symlinks
    thread            \* the thread that owns the stream

\* ------------------------------------------------------------------ bytes

\* Bit i (0 = least significant) of the byte x.
BitOf(x, i) == (x \div (2 ^ i)) % 2

ByteAnd(a, b) ==
    LET t(i) == (2 ^ i) * BitOf(a, i) * BitOf(b, i)
    IN  IF a = 0 \/ b = 0 THEN 0
        ELSE t(0) + t(1) + t(2) + t(3) + t(4) + t(5) + t(6) + t(7)

ByteOr(a, b) == a + b - ByteAnd(a, b)

\* u32 & u32 and u32 | u32 on byte tuples.
WordAnd(u, v) == [k \in 1..4 |-> ByteAnd(u[k], v[k])]

WordOr(u, v) == [k \in 1..4 |-> ByteOr(u[k], v[k])]

ZeroWord == <<0, 0, 0, 0>>

\* n.to_ne_bytes() for a u32 / u64 below 2^31.
LE32(n) == <<n % 256, (n \div 256) % 256, (n \div 65536) % 256, (n \div 16777216) % 256>>

LE64(n) == LE32(n) \o ZeroWord

\* The largest number the model turns a length into.  usize has 64 bits and a
\* TLC integer 32: a u32 of 2^30 or more is represented by 2^30.  Every buffer
\* capacity of the model is far below it, so each comparison of a length with a
\* buffer length or a valid-byte count has the outcome of the exact value.
UsizeClamp == 1073741824

\* u32::from_ne_bytes(w) as usize.
usize_from(w) ==
    IF w[4] >= 64 THEN UsizeClamp
    ELSE w[1] + 256 * w[2] + 65536 * w[3] + 16777216 * w[4]

\* i32::from_ne_bytes(w): two's complement.
i32_from(w) ==
    IF w[4] < 128 THEN w[1] + 256 * w[2] + 65536 * w[3] + 16777216 * w[4]
    ELSE -((255 - w[1]) + 256 * (255 - w[2]) + 65536 * (255 - w[3])
           + 16777216 * (255 - w[4])) - 1

I32Max == 2147483647

\* ------------------------------------------------------ ffi.rs: the flags

ATTR_BIT_MAP_COUNT == 5

RETURNED_ATTRS == <<0, 0, 0, 128>>  \* 0x80000000
NAME == <<1, 0, 0, 0>>              \* 0x00000001
OBJTYPE == <<8, 0, 0, 0>>           \* 0x00000008
MODTIME == <<0, 4, 0, 0>>           \* 0x00000400
ACCESSMASK == <<0, 0, 2, 0>>        \* 0x00020000
FILEID_SWAPPED == <<2, 0, 0, 0>>    \* 0x00000002
FILEID == <<0, 0, 0, 2>>            \* 0x02000000
TOTALSIZE == <<2, 0, 0, 0>>         \* 0x00000002
ALLOCSIZE == <<4, 0, 0, 0>>         \* 0x00000004
ENTRYCOUNT == <<2, 0, 0, 0>>        \* 0x00000002

\* FsOptions, a u64 whose defined bits fit one byte.
NOFOLLOW == 1
PACK_INVAL_ATTRS == 8

\* size_of::<ffi::attribute_set>(): five u32.
AttributeSetSize == 20

\* flags & bit != 0
Has(mask, bit) == WordAnd(mask, bit) # ZeroWord

\* -------------------------------------------- types.rs: RequestedAttributes

\* RequestedAttributes::default(): every flag false.
DefaultAttributes ==
    [name |-> FALSE, object_type |-> FALSE, size |-> FALSE, alloc_size |-> FALSE,
     modified_time |-> FALSE, permissions |-> FALSE, inode |-> FALSE,
     entry_count |-> FALSE]

\* RequestedAttributes::all()
AllAttributes ==
    [name |-> TRUE, object_type |-> TRUE, size |-> TRUE, alloc_size |-> TRUE,
     modified_time |-> TRUE, permissions |-> TRUE, inode |-> TRUE,
     entry_count |-> TRUE]

\* The flags of RequestedAttributes; the fields of DirEntry and of a record
\* have the same names.
FieldNames ==
    {"name", "object_type", "modified_time", "permissions", "inode", "size",
     "alloc_size", "entry_count"}

\* impl From<RequestedAttributes> for ffi::attrlist
AttrlistFrom(req) ==
    LET add(m, flag, bit) == IF flag THEN WordOr(m, bit) ELSE m
        common == add(add(add(add(add(RETURNED_ATTRS,
                      req.name, NAME),
                      req.object_type, OBJTYPE),
                      req.modified_time, MODTIME),
                      req.permissions, ACCESSMASK),
                      req.inode, FILEID)
        file == add(add(ZeroWord, req.size, TOTALSIZE), req.alloc_size, ALLOCSIZE)
        dir == add(ZeroWord, req.entry_count, ENTRYCOUNT)
    IN  [bitmapcount |-> ATTR_BIT_MAP_COUNT, reserved |-> 0,
         commonattr |-> common, volattr |-> ZeroWord, dirattr |-> dir,
         fileattr |-> file, forkattr |-> ZeroWord]

\* A mapping that looks at the low byte of the code only.
ObjectTypeFromLowByte(vtype) ==
    IF vtype[1] = 1 THEN <<"Regular">>
    ELSE IF vtype[1] = 2 THEN <<"Directory">>
    ELSE IF vtype[1] = 5 THEN <<"Symlink">>
    ELSE IF vtype[1] = 3 THEN <<"BlockDevice">>
    ELSE IF vtype[1] = 4 THEN <<"CharDevice">>
    ELSE IF vtype[1] = 6 THEN <<"Socket">>
    ELSE IF vtype[1] = 7 THEN <<"Fifo">>
    ELSE <<"Unknown", vtype>>

\* impl From<u32> for ObjectType, on the u32's byte tuple.
ObjectTypeFrom(vtype) ==
    IF vtype = LE32(1) THEN <<"Regular">>
    ELSE IF vtype = LE32(2) THEN <<"Directory">>
    ELSE IF vtype = LE32(5) THEN <<"Symlink">>
    ELSE IF vtype = LE32(3) THEN <<"BlockDevice">>
    ELSE IF vtype = LE32(4) THEN <<"CharDevice">>
    ELSE IF vtype = LE32(6) THEN <<"Socket">>
    ELSE IF vtype = LE32(7) THEN <<"Fifo">>
    ELSE <<"Unknown", vtype>>

\* Option<T>: None is the empty tuple, Some(v) the tuple of v.
None == <<>>

Some(v) == <<v>>

\* Result<T, E>.  A panic of the code is the error "panic".
Ok(v) == [ok |-> TRUE, val |-> v]

Err(e) == [ok |-> FALSE, err |-> e]

\* --------------------------------------------------------------- buffers

\* A byte buffer of len bytes: data holds its leading bytes and every byte
\* after them is zero (vec![0u8; n] with a written prefix).
NewBuffer(n) == [len |-> n, data |-> <<>>]

\* buffer[i], 0-based
ByteAt(buf, i) == IF i < Len(buf.data) THEN buf.data[i + 1] ELSE 0

\* buffer[off..off + n]
Bytes(buf, off, n) == [k \in 1..n |-> ByteAt(buf, off + k - 1)]

\* &buffer[from..]
SliceFrom(buf, from) ==
    [len |-> buf.len - from, data |-> SubSeq(buf.data, from + 1, Len(buf.data))]

\* ------------------------------------------------ parser.rs: BufferParser

read_u32(buf, offset) ==
    IF offset + 4 > buf.len THEN Err("UnexpectedEnd") ELSE Ok(Bytes(buf, offset, 4))

read_u64(buf, offset) ==
    IF offset + 8 > buf.len THEN Err("UnexpectedEnd") ELSE Ok(Bytes(buf, offset, 8))

read_i32(buf, offset) ==
    IF offset + 4 > buf.len THEN Err("UnexpectedEnd") ELSE Ok(Bytes(buf, offset, 4))

read_i64(buf, offset) ==
    IF offset + 8 > buf.len THEN Err("UnexpectedEnd") ELSE Ok(Bytes(buf, offset, 8))

read_attribute_set(buf, offset) ==
    IF offset + AttributeSetSize > buf.len THEN Err("UnexpectedEnd")
    ELSE Ok([commonattr |-> Bytes(buf, offset, 4),
             volattr |-> Bytes(buf, offset + 4, 4),
             dirattr |-> Bytes(buf, offset + 8, 4),
             fileattr |-> Bytes(buf, offset + 12, 4),
             forkattr |-> Bytes(buf, offset + 16, 4)])

\* name_bytes cut at its first zero byte.
UntilNull(bytes) ==
    LET nulls == {i \in 1..Len(bytes) : bytes[i] = 0}
    IN  IF nulls = {} THEN bytes
        ELSE SubSeq(bytes, 1, (CHOOSE i \in nulls : \A j \in nulls : i <= j) - 1)

\* U+FFFD, what String::from_utf8_lossy puts for an invalid sequence.
ReplacementChar == 65533

\* A conversion that takes every byte for a code point.
from_latin1(bytes) == bytes

\* String::from_utf8_lossy on one- and two-byte sequences: the text as its
\* sequence of code points.  A byte below 0x80 is itself; a lead byte 0xC2..0xDF
\* with a continuation byte 0x80..0xBF is one code point; any other byte is
\* replaced by U+FFFD.
RECURSIVE from_utf8_lossy(_)
from_utf8_lossy(bytes) ==
    IF bytes = <<>> THEN <<>>
    ELSE LET b == Head(bytes) IN
         IF b < 128 THEN <<b>> \o from_utf8_lossy(Tail(bytes))
         ELSE IF b >= 194 /\ b <= 223 /\ Len(bytes) >= 2
                 /\ bytes[2] >= 128 /\ bytes[2] <= 191
              THEN <<(b - 192) * 64 + (bytes[2] - 128)>>
                   \o from_utf8_lossy(Tail(Tail(bytes)))
              ELSE <<ReplacementChar>> \o from_utf8_lossy(Tail(bytes))

\* A name range counted from the start of the record.
StringStartFromEntry(entry_start, ref_offset, data_offset) == entry_start + data_offset

\* parse_attrreference_string: ref_offset as i32 + data_offset, where it does
\* not overflow.
StringStart(entry_start, ref_offset, data_offset) == ref_offset + data_offset

\* BufferParser::parse_attrreference_string: Ok(<<name, offset after the
\* reference>>).  The two additions can overflow.  ref_offset as i32 +
\* data_offset past i32::MAX panics with overflow checks and wraps to a
\* negative i32 without.  A negative start becomes, as usize, 2^64 + start, so
\* string_start + data_length overflows when start + data_length >= 0: with
\* overflow checks a panic, without them string_end wraps to start +
\* data_length, and when that passes the bounds check the slice of a start
\* after its end panics.
parse_attrreference_string(buf, entry_start, ref_offset) ==
    LET Name(start, data_length) ==
            IF start < 0
            THEN IF start + data_length < 0 THEN Err("InvalidOffset")
                 ELSE IF overflow_checks THEN Err("panic")
                 ELSE IF start + data_length > buf.len THEN Err("InvalidOffset")
                 ELSE Err("panic")
            ELSE IF start > buf.len \/ data_length > buf.len - start
            THEN Err("InvalidOffset")
            ELSE Ok(<<from_utf8_lossy(UntilNull(Bytes(buf, start, data_length))),
                      ref_offset + 8>>)
        Ref(data_offset, data_length) ==
            IF data_offset > I32Max - ref_offset
            THEN IF overflow_checks THEN Err("panic")
                 ELSE Name(((data_offset - I32Max - 1) + ref_offset) - I32Max - 1,
                           data_length)
            ELSE Name(StringStart(entry_start, ref_offset, data_offset), data_length)
        Got(r1, r2) ==
            IF ~r1.ok THEN r1
            ELSE IF ~r2.ok THEN r2
            ELSE Ref(i32_from(r1.val), usize_from(r2.val))
    IN  Got(read_i32(buf, ref_offset), read_u32(buf, ref_offset + 4))

\* Duration::new(secs, nanos) carries nanos / 1_000_000_000 into the seconds.
NanosPerSec == 1000000000

\* The four bytes of tv_nsec as u32, as whole seconds and the nanoseconds left.
\* The value is compared in 16-bit halves, hi * 65536 + lo, against
\* k * NanosPerSec taken in the same halves.
NanosSplit(w) ==
    LET hi == w[3] + 256 * w[4]
        lo == w[1] + 256 * w[2]
        THi(k) == k * (NanosPerSec \div 65536) + (k * (NanosPerSec % 65536)) \div 65536
        TLo(k) == (k * (NanosPerSec % 65536)) % 65536
        AtLeast(k) == hi > THi(k) \/ (hi = THi(k) /\ lo >= TLo(k))
        Left(k) == [carry |-> k, nanos |-> (hi - THi(k)) * 65536 + (lo - TLo(k))]
    IN  IF AtLeast(4) THEN Left(4)
        ELSE IF AtLeast(3) THEN Left(3)
        ELSE IF AtLeast(2) THEN Left(2)
        ELSE IF AtLeast(1) THEN Left(1)
        ELSE Left(0)

\* bytes + c on little-endian bytes, the carry out of the last byte dropped.
RECURSIVE AddToBytes(_, _)
AddToBytes(bytes, c) ==
    IF bytes = <<>> THEN <<>>
    ELSE <<(Head(bytes) + c) % 256>> \o AddToBytes(Tail(bytes), (Head(bytes) + c) \div 256)

\* UNIX_EPOCH + Duration::new(tv_sec as u64, tv_nsec as u32): the time as its
\* seconds since the epoch (eight bytes, an i64) and nanoseconds below 10^9.
\* The sum panics ("overflow when adding duration to instant") when the
\* duration's seconds do not fit an i64: every negative tv_sec, taken as u64,
\* is such a value.
SystemTimeFrom(tv_sec, tv_nsec) ==
    LET Sum(secs, nanos) ==
            IF secs[8] >= 128 THEN Err("panic")
            ELSE Ok([secs |-> secs, nanos |-> nanos])
        Split(d) ==
            IF tv_sec[8] >= 128 THEN Err("panic")
            ELSE Sum(AddToBytes(tv_sec, d.carry), d.nanos)
    IN  Split(NanosSplit(SubSeq(tv_nsec, 1, 4)))

\* BufferParser::parse_timespec: Ok(<<time, offset after the field>>).
parse_timespec(buf, offset) ==
    LET Time(t) == IF ~t.ok THEN t ELSE Ok(<<t.val, offset + 16>>)
        Got(r1, r2) ==
            IF ~r1.ok THEN r1
            ELSE IF ~r2.ok THEN r2
            ELSE Time(SystemTimeFrom(r1.val, r2.val))
    IN  Got(read_i64(buf, offset), read_i64(buf, offset + 8))

\* The DirEntry parse_entry starts from: an empty name and every field None.
EmptyEntry ==
    [name |-> <<>>, object_type |-> None, size |-> None, alloc_size |-> None,
     modified_time |-> None, permissions |-> None, inode |-> None,
     entry_count |-> None]

NoErr == "none"

\* BufferParser::parse_entry.  The requested attributes the parser was built
\* with are not read (the field _requested).  st is the decoder's position:
\* the offset, the entry so far, and the error that ended the decoding.
parse_entry(buf, entry_start, entry_length) ==
    LET \* one `if returned.x & BIT != 0 { field = Some(read(offset)?); offset += width }`
        Step(st, present, read(_), width, field, conv(_)) ==
            LET Got(r) ==
                    IF ~r.ok THEN [st EXCEPT !.err = r.err]
                    ELSE [st EXCEPT !.offset = st.offset + width,
                                    !.e = [st.e EXCEPT ![field] = Some(conv(r.val))]]
            IN  IF st.err # NoErr \/ ~present THEN st ELSE Got(read(st.offset))
        NameStep(st, present) ==
            LET Got(r) ==
                    IF ~r.ok THEN [st EXCEPT !.err = r.err]
                    ELSE [st EXCEPT !.offset = r.val[2], !.e.name = r.val[1]]
            IN  IF ~present THEN st
                ELSE Got(parse_attrreference_string(buf, entry_start, st.offset))
        TimeStep(st, present) ==
            LET Got(r) ==
                    IF ~r.ok THEN [st EXCEPT !.err = r.err]
                    ELSE [st EXCEPT !.offset = r.val[2],
                                    !.e.modified_time = Some(r.val[1])]
            IN  IF st.err # NoErr \/ ~present THEN st
                ELSE Got(parse_timespec(buf, st.offset))
        Same(v) == v
        RdU32(o) == read_u32(buf, o)
        RdU64(o) == read_u64(buf, o)
        Start == [offset |-> entry_start + 4 + AttributeSetSize, err |-> NoErr,
                  e |-> EmptyEntry]
        Finish(st) == IF st.err # NoErr THEN Err(st.err) ELSE Ok(st.e)
        Fields(returned) ==
            Finish(
              Step(
                Step(
                  Step(
                    Step(
                      Step(
                        TimeStep(
                          Step(
                            NameStep(Start, Has(returned.commonattr, NAME)),
                            Has(returned.commonattr, OBJTYPE), RdU32, 4,
                            "object_type", ObjectTypeFrom),
                          Has(returned.commonattr, MODTIME)),
                        Has(returned.commonattr, ACCESSMASK), RdU32, 4,
                        "permissions", Same),
                      Has(returned.commonattr, FILEID), RdU64, 8, "inode", Same),
                    Has(returned.fileattr, TOTALSIZE), RdU64, 8, "size", Same),
                  Has(returned.fileattr, ALLOCSIZE), RdU64, 8, "alloc_size", Same),
                Has(returned.dirattr, ENTRYCOUNT), RdU32, 4, "entry_count", Same))
        Got(rs) == IF ~rs.ok THEN rs ELSE Fields(rs.val)
    IN  Got(read_attribute_set(buf, entry_start + 4))

\* BufferParser::new: a parser at offset 0 of the slice.
NewParser(buf, bytes_valid_, requested_) ==
    [buffer |-> buf, offset |-> 0, bytes_valid |-> bytes_valid_,
     requested |-> requested_]

\* A length check that can never be true of an unsigned length.
LengthBelowZero(entry_length) == entry_length < 0

\* next_entry: entry_length == 0
LengthIsZero(entry_length) == entry_length = 0

\* A check of the length against all the valid bytes, not those that remain.
LongerThanValid(offset, entry_length, valid) == entry_length > valid

\* next_entry: self.offset + entry_length > self.bytes_valid
PastValid(offset, entry_length, valid) == offset + entry_length > valid

\* BufferParser::next_entry: the item returned (None, Some(Ok(entry)),
\* Some(Err(e))) and the parser's offset afterwards.
next_entry(p) ==
    LET Entry(entry_length) ==
            IF LengthIsZero(entry_length)
            THEN [item |-> Some(Err("InvalidEntryLength")), offset |-> p.offset]
            ELSE IF PastValid(p.offset, entry_length, p.bytes_valid)
            THEN [item |-> Some(Err("BufferTooSmall")), offset |-> p.offset]
            ELSE [item |-> Some(parse_entry(p.buffer, p.offset, entry_length)),
                  offset |-> p.offset + entry_length]
        Got(r) ==
            IF ~r.ok THEN [item |-> Some(r), offset |-> p.offset]
            ELSE Entry(usize_from(r.val))
    IN  IF p.offset >= p.bytes_valid THEN [item |-> None, offset |-> p.offset]
        ELSE Got(read_u32(p.buffer, p.offset))

\* ------------------------------------- error.rs: Error and ParseError

\* impl fmt::Display for ParseError
ParseErrorDisplay(e) ==
    CASE e = "BufferTooSmall" -> "buffer too small"
      [] e = "InvalidOffset" -> "invalid offset in attribute reference"
      [] e = "UnexpectedEnd" -> "unexpected end of buffer"
      [] e = "InvalidEntryLength" -> "invalid entry length"

\* impl From<ParseError> for Error
ErrorFromParse(e) == <<"Parse", ParseErrorDisplay(e)>>

\* Error::Syscall(io::Error::last_os_error())
ErrorSyscall(errno) == <<"Syscall", errno>>

\* Error::Open(..)
ErrorOpen(why) == <<"Open", why>>

\* ------------------------------- the kernel side of getattrlistbulk(2)

\* The objects a directory of the model may hold.  An object is one the kernel
\* packs in the documented format (quirk "ok") or one whose record departs
\* from it: "bad_ref" has a name reference that points far outside the buffer,
\* "extra" reports and packs the object type although it was not asked for.
FileA ==
    [name |-> <<97>>, vtype |-> 1, size |-> 11, alloc |-> 16, sec |-> 5, nsec |-> 7,
     mode |-> 420, fileid |-> 3, children |-> 0, quirk |-> "ok"]

DirB ==
    [name |-> <<98>>, vtype |-> 2, size |-> 0, alloc |-> 0, sec |-> 6, nsec |-> 0,
     mode |-> 493, fileid |-> 4, children |-> 1, quirk |-> "ok"]

FileBadRef == [FileA EXCEPT !.name = <<100>>, !.fileid = 6, !.quirk = "bad_ref"]

FileExtra == [FileA EXCEPT !.name = <<101>>, !.fileid = 7, !.quirk = "extra"]

Objects == {FileA, DirB, FileBadRef, FileExtra}

\* Objects whose record comes with a length prefix of zero, or with one larger
\* than any buffer.
FileZeroLength == [FileA EXCEPT !.name = <<102>>, !.fileid = 8, !.quirk = "zero_length"]

FileLongLength == [FileA EXCEPT !.name = <<103>>, !.fileid = 9, !.quirk = "long_length"]

\* The length prefix a "long_length" record carries.
LongRecordLength == 1000000

\* The data offset a "bad_ref" record carries.
BadDataOffset == 1000000

\* bytes padded with zeros to a multiple of 8
Pad8(bytes) == bytes \o [k \in 1..((8 - (Len(bytes) % 8)) % 8) |-> 0]

\* The record the kernel packs for the object under the attribute list al:
\* length, returned attribute_set, the fixed fields of the attributes that were
\* asked for and apply to the object, in the order name reference, object type,
\* modified time, access mask, file id, total size, allocated size, entry
\* count; then the name with its terminating zero.
KernelRecord(obj, al) ==
    LET common == IF obj.quirk = "extra" THEN WordOr(al.commonattr, OBJTYPE)
                  ELSE al.commonattr
        file == IF obj.vtype = 1 THEN al.fileattr ELSE ZeroWord
        dir == IF obj.vtype = 2 THEN al.dirattr ELSE ZeroWord
        opt(present, bytes) == IF present THEN bytes ELSE <<>>
        after == opt(Has(common, OBJTYPE), LE32(obj.vtype))
                 \o opt(Has(common, MODTIME), LE64(obj.sec) \o LE64(obj.nsec))
                 \o opt(Has(common, ACCESSMASK), LE32(obj.mode))
                 \o opt(Has(common, FILEID), LE64(obj.fileid))
                 \o opt(Has(file, TOTALSIZE), LE64(obj.size))
                 \o opt(Has(file, ALLOCSIZE), LE64(obj.alloc))
                 \o opt(Has(dir, ENTRYCOUNT), LE32(obj.children))
        nameData == obj.name \o <<0>>
        ref == LE32(IF obj.quirk = "bad_ref" THEN BadDataOffset ELSE 8 + Len(after))
               \o LE32(Len(nameData))
        body == common \o ZeroWord \o dir \o file \o ZeroWord
                \o opt(Has(common, NAME), ref) \o after
                \o opt(Has(common, NAME), nameData)
        total == Len(Pad8(<<0, 0, 0, 0>> \o body))
        prefix == CASE obj.quirk = "zero_length" -> 0
                    [] obj.quirk = "long_length" -> LongRecordLength
                    [] OTHER -> total
    IN  Pad8(LE32(prefix) \o body)

RECURSIVE Concat(_)
Concat(seqs) == IF seqs = <<>> THEN <<>> ELSE Head(seqs) \o Concat(Tail(seqs))

\* The bytes of the records of objs[from + 1 .. from + k], back to back.
KernelRecords(objs, from, k, al) ==
    Concat([i \in 1..k |-> KernelRecord(objs[from + i], al)])

\* How many of the objects after the first `from` fit a buffer with room bytes
\* left, taken in order.
RECURSIVE KernelFit(_, _, _, _)
KernelFit(objs, from, al, room) ==
    IF from >= Len(objs) THEN 0
    ELSE LET n == Len(KernelRecord(objs[from + 1], al)) IN
         IF n > room THEN 0 ELSE 1 + KernelFit(objs, from + 1, al, room - n)

\* The buffer after the kernel copied bytes to its start: what lay beyond them
\* stays.
KernelWrite(buf, bytes) ==
    [buf EXCEPT !.data = bytes \o SubSeq(buf.data, Len(bytes) + 1, Len(buf.data))]

EINTR == 4
EIO == 5
ERANGE == 34

\* ------------------------------------------------------------ the bounds

\* Objects in the directory.
MaxDirLen == 3

\* Pulls (calls of Iterator::next) on a stream.
MaxPulls == 5

\* Interrupted bulk calls counted within one pull; further ones are not counted.
MaxIntr == 2

\* Bulk calls that fail with an errno other than EINTR on one stream.
MaxFail == 1

\* --------------------------------------------------------------- inputs

NameOnly == [DefaultAttributes EXCEPT !.name = TRUE]

NameSize == [DefaultAttributes EXCEPT !.name = TRUE, !.size = TRUE]

\* The attribute requests callers make.
Requests == {DefaultAttributes, NameOnly, NameSize, AllAttributes}

\* 64 * 1024, the default buffer size of read_dir and DirReader::new.
DefaultBufferSize == 65536

\* The buffer sizes callers pass.
BufferSizes == {48, 96}

\* The paths callers pass: the directory, and paths open_directory fails on.
Paths == {"/dir", "/missing", "/file", "/secret", "/nul\\0byte"}

\* Directories: up to MaxDirLen objects, no object twice.
Directories ==
    {q \in UNION {[1..n -> Objects] : n \in 0..MaxDirLen} :
        \A i, j \in 1..Len(q) : i # j => q[i] # q[j]}

\* ------------------------------------------------ the state, continued

vars ==
    <<directory, dirPos, fdOpen, closes, pc, dirfd, buffer, bytes_valid,
      parser_offset, requested, exhausted, follow_symlinks, call, result, last,
      yielded, pulls, intr, open_path, overflow_checks, reader, thread>>

kernelVars == <<directory, dirPos, fdOpen, closes>>

streamVars ==
    <<dirfd, buffer, bytes_valid, parser_offset, requested, exhausted,
      follow_symlinks>>

\* No DirReader: the stream is made by read_dir or read_dir_with_buffer, or the
\* reader's configuration is an input of the action that builds and reads it.
NoReader ==
    [path |-> "", attrs |-> DefaultAttributes, buffer_size |-> 0,
     follow_symlinks |-> TRUE]

NoCall == [dirfd |-> -1, attrlist |-> AttrlistFrom(DefaultAttributes),
           buffer_size |-> 0, options |-> 0]

Init ==
    /\ directory \in Directories
    /\ dirPos = 0
    /\ fdOpen = FALSE
    /\ closes = 0
    /\ pc = "new"
    /\ dirfd = -1
    /\ buffer = NewBuffer(0)
    /\ bytes_valid = 0
    /\ parser_offset = 0
    /\ requested = DefaultAttributes
    /\ exhausted = FALSE
    /\ follow_symlinks = TRUE
    /\ call = NoCall
    /\ result = "none"
    /\ last = <<"new">>
    /\ yielded = <<>>
    /\ pulls = 0
    /\ intr = 0
    /\ open_path = ""
    /\ overflow_checks = TRUE
    /\ reader = NoReader
    /\ thread = 1

\* ------------------------------------------------- iter.rs: DirEntries

\* The descriptor open(2) returns for the directory.
DirFd == 3

\* What open(2) with O_RDONLY | O_DIRECTORY answers for a path without a null
\* byte: the descriptor, or -1 with an errno.
KernelOpen(path) ==
    CASE path = "/dir" -> Ok(DirFd)
      [] path = "/file" -> Err("ENOTDIR")
      [] path = "/secret" -> Err("EACCES")
      [] OTHER -> Err("ENOENT")

\* CString::new fails on a path with an interior null byte.
HasNullByte(path) == path = "/nul\\0byte"

\* An open_directory that hands on whatever open(2) returned, -1 included.
open_directory_unchecked(path) ==
    LET Got(r) == IF r.ok THEN r ELSE Ok(-1)
    IN  Got(KernelOpen(path))

\* open_directory: the descriptor, or the Open error.
open_directory(path) ==
    LET Got(r) == IF r.ok THEN r ELSE Err(ErrorOpen(r.err))
    IN  IF HasNullByte(path) THEN Err(ErrorOpen("InvalidInput"))
        ELSE Got(KernelOpen(path))

\* DirEntries::new
New(path, attrs, buffer_size, follow) ==
    LET r == open_directory(path) IN
    IF ~r.ok
    THEN /\ pc' = "open_failed"
         /\ last' = <<"open_error", r.err>>
         /\ open_path' = path
         /\ UNCHANGED <<kernelVars, streamVars, call, result, yielded, pulls, intr,
                        overflow_checks, reader, thread>>
    ELSE /\ pc' = "idle"
         /\ last' = <<"stream">>
         /\ fdOpen' = TRUE
         /\ dirfd' = r.val
         /\ buffer' = NewBuffer(buffer_size)
         /\ bytes_valid' = 0
         /\ parser_offset' = 0
         /\ requested' = attrs
         /\ exhausted' = FALSE
         /\ follow_symlinks' = follow
         /\ open_path' = path
         /\ UNCHANGED <<directory, dirPos, closes, call, result, yielded, pulls, intr,
                        overflow_checks, reader, thread>>

\* lib.rs: read_dir_with_buffer
read_dir_with_buffer(path, attrs, buffer_size) == New(path, attrs, buffer_size, TRUE)

\* lib.rs: read_dir
read_dir(path, attrs) == read_dir_with_buffer(path, attrs, DefaultBufferSize)

\* builder.rs: DirReader::read on a reader with these attributes, buffer size
\* and follow_symlinks setting.
DirReaderRead(path, attrs, buffer_size, follow) ==
    LET forced == IF ~attrs.name THEN [attrs EXCEPT !.name = TRUE] ELSE attrs
    IN  New(path, forced, buffer_size, follow)

ReadDir ==
    /\ pc = "new"
    /\ \E path \in Paths, attrs \in Requests : read_dir(path, attrs)

ReadDirWithBuffer ==
    /\ pc = "new"
    /\ \E path \in Paths, attrs \in Requests, size \in BufferSizes :
          read_dir_with_buffer(path, attrs, size)

DirReaderBuild ==
    /\ pc = "new"
    /\ \E path \in Paths, attrs \in Requests,
          size \in BufferSizes \cup {DefaultBufferSize}, follow \in BOOLEAN :
          DirReaderRead(path, attrs, size, follow)

\* DirEntries::find_valid_bytes
RECURSIVE find_valid_bytes_from(_, _)
find_valid_bytes_from(buf, offset) ==
    LET Entry(entry_length) ==
            IF entry_length = 0 THEN offset
            ELSE IF offset + entry_length > buf.len THEN offset
            ELSE find_valid_bytes_from(buf, offset + entry_length)
    IN  IF ~(offset + 4 <= buf.len) THEN offset
        ELSE Entry(usize_from(Bytes(buf, offset, 4)))

\* A scan that does not compare the end of a record with the end of the
\* buffer.
RECURSIVE find_valid_bytes_unchecked_from(_, _)
find_valid_bytes_unchecked_from(buf, offset) ==
    LET Entry(entry_length) ==
            IF entry_length = 0 THEN offset
            ELSE find_valid_bytes_unchecked_from(buf, offset + entry_length)
    IN  IF ~(offset + 4 <= buf.len) THEN offset
        ELSE Entry(usize_from(Bytes(buf, offset, 4)))

find_valid_bytes_unchecked(buf) == find_valid_bytes_unchecked_from(buf, 0)

\* A scan that stops after the first record.
find_first_record(buf) ==
    LET Entry(entry_length) == IF entry_length > buf.len THEN 0 ELSE entry_length
    IN  IF buf.len < 4 THEN 0 ELSE Entry(usize_from(Bytes(buf, 0, 4)))

find_valid_bytes(buf) == find_valid_bytes_from(buf, 0)

\* A cursor that moves past the 24 bytes of length prefix and attribute_set.
AdvanceOffsetByHeader(buf, offset) == offset + 24

\* The read cursor after a record was decoded: self.parser_offset += entry_length
AdvanceOffset(buf, offset) == offset + usize_from(Bytes(buf, offset, 4))

\* The read cursor after a record failed to decode: the Err arm leaves it.
OffsetAfterError(buf, offset) == offset

\* self.parser_offset >= self.bytes_valid: nothing is left to decode.
BufferConsumed(offset, valid) == offset >= valid

\* DirEntries::next_from_buffer on the fields given: the item it returns and
\* the read cursor afterwards.
next_from_buffer(buf, valid, offset, req) ==
    LET Got(r) ==
            IF r.item = None THEN [item |-> None, offset |-> offset]
            ELSE IF r.item[1].ok
            THEN [item |-> r.item, offset |-> AdvanceOffset(buf, offset)]
            ELSE IF r.item[1].err = "panic"
            THEN [item |-> r.item, offset |-> offset]
            ELSE [item |-> Some(Err(ErrorFromParse(r.item[1].err))),
                  offset |-> OffsetAfterError(buf, offset)]
    IN  IF BufferConsumed(offset, valid) THEN [item |-> None, offset |-> offset]
        ELSE Got(next_entry(NewParser(SliceFrom(buf, offset), valid - offset, req)))

\* An options mask that never asks not to follow.
RefillOptionsFollowing(follow) == PACK_INVAL_ATTRS

\* The options mask of refill_buffer.
RefillOptions(follow) ==
    IF ~follow THEN PACK_INVAL_ATTRS + NOFOLLOW ELSE PACK_INVAL_ATTRS

\* The arguments refill_buffer passes to ffi::getattrlistbulk.
BulkCall(fd, req, buf, follow) ==
    [dirfd |-> fd, attrlist |-> AttrlistFrom(req), buffer_size |-> buf.len,
     options |-> RefillOptions(follow)]

\* One turn of the loop of Iterator::next on the fields given: return the next
\* item of the buffer; or, with none left, return None if exhausted; or enter
\* refill_buffer, which issues the bulk call.  res is what the last bulk call
\* returned.
\* The items the stream has returned so far, kept for the first MaxPulls of
\* them: no run of at most MaxPulls pulls returns more.
Remember(items, item) ==
    IF Len(items) < MaxPulls THEN Append(items, item) ELSE items

NextLoop(buf, valid, offset, exh, res) ==
    LET Got(r) ==
            IF r.item # None /\ ~r.item[1].ok /\ r.item[1].err = "panic"
            THEN /\ pc' = "panicked"
                 /\ parser_offset' = r.offset
                 /\ result' = res
                 /\ intr' = 0
                 /\ UNCHANGED <<call, last, yielded>>
            ELSE IF r.item # None
            THEN /\ pc' = "idle"
                 /\ parser_offset' = r.offset
                 /\ last' = <<"pull", r.item>>
                 /\ yielded' = Remember(yielded, r.item[1])
                 /\ result' = res
                 /\ intr' = 0
                 /\ UNCHANGED call
            ELSE IF exh
            THEN /\ pc' = "idle"
                 /\ parser_offset' = r.offset
                 /\ last' = <<"pull", None>>
                 /\ result' = res
                 /\ intr' = 0
                 /\ UNCHANGED <<call, yielded>>
            ELSE /\ pc' = "syscall"
                 /\ parser_offset' = r.offset
                 /\ call' = BulkCall(dirfd, requested, buf, follow_symlinks)
                 /\ result' = "pending"
                 /\ UNCHANGED <<last, yielded, intr>>
    IN  Got(next_from_buffer(buf, valid, offset, requested))

\* Iterator::next is called on the stream.
Pull ==
    /\ pc = "idle"
    /\ pulls < MaxPulls
    /\ pulls' = pulls + 1
    /\ NextLoop(buffer, bytes_valid, parser_offset, exhausted, result)
    /\ UNCHANGED <<kernelVars, dirfd, buffer, bytes_valid, requested, exhausted,
                   follow_symlinks, open_path, overflow_checks, reader, thread>>

\* A retry that loses the options word.
RetryCallWithoutOptions ==
    [BulkCall(dirfd, requested, buffer, follow_symlinks) EXCEPT !.options = 0]

\* refill_buffer on a negative result with errno EINTR: return self.refill_buffer()
RetryCall == BulkCall(dirfd, requested, buffer, follow_symlinks)

\* The bulk call is interrupted by a signal: -1 with errno EINTR.
BulkInterrupted ==
    /\ pc = "syscall"
    /\ intr' = IF intr < MaxIntr THEN intr + 1 ELSE intr
    /\ pc' = "syscall"
    /\ call' = RetryCall
    /\ result' = "pending"
    /\ UNCHANGED <<kernelVars, streamVars, last, yielded, pulls, open_path,
                   overflow_checks, reader, thread>>

\* A failed call that marks the stream exhausted.
ExhaustedSetAfterError == TRUE

\* refill_buffer on a negative result with another errno: the exhausted flag
\* after return Err(Error::Syscall(err)).
ExhaustedAfterError == exhausted

\* The Syscall errors among the items.
SyscallErrors(items) ==
    Cardinality({i \in 1..Len(items) : ~items[i].ok /\ items[i].err[1] = "Syscall"})

\* The bulk call fails: -1 with an errno other than EINTR.  ERANGE when not even
\* the next record fits the buffer, EIO at any call.
BulkFailed ==
    /\ pc = "syscall"
    /\ SyscallErrors(yielded) < MaxFail
    /\ \E errno \in {EIO} \cup
                 (IF dirPos < Len(directory)
                     /\ KernelFit(directory, dirPos, call.attrlist, call.buffer_size) = 0
                  THEN {ERANGE} ELSE {}) :
          /\ last' = <<"pull", Some(Err(ErrorSyscall(errno)))>>
          /\ yielded' = Remember(yielded, Err(ErrorSyscall(errno)))
    /\ pc' = "idle"
    /\ result' = "error"
    /\ intr' = 0
    /\ exhausted' = ExhaustedAfterError
    /\ UNCHANGED <<kernelVars, dirfd, buffer, bytes_valid, parser_offset, requested,
                   follow_symlinks, call, pulls, open_path, overflow_checks,
                   reader, thread>>

\* A zero result that leaves the exhausted flag as it was.
ExhaustedLeftAfterZero == exhausted

\* refill_buffer on the result 0: the exhausted flag after it.
ExhaustedAfterZero == TRUE

\* A refill_buffer that takes every result below 1 for a failure.
BulkZeroTakenForFailure ==
    /\ pc = "syscall"
    /\ dirPos = Len(directory)
    /\ pc' = "idle"
    /\ result' = "zero"
    /\ intr' = 0
    /\ last' = <<"pull", Some(Err(ErrorSyscall(0)))>>
    /\ yielded' = Append(yielded, Err(ErrorSyscall(0)))
    /\ UNCHANGED <<kernelVars, streamVars, call, pulls, open_path, overflow_checks,
                   reader, thread>>

\* The bulk call returns 0: the directory has no more entries.
BulkZero ==
    /\ pc = "syscall"
    /\ dirPos = Len(directory)
    /\ pc' = "idle"
    /\ result' = "zero"
    /\ intr' = 0
    /\ exhausted' = ExhaustedAfterZero
    /\ last' = <<"pull", None>>
    /\ UNCHANGED <<kernelVars, dirfd, buffer, bytes_valid, parser_offset, requested,
                   follow_symlinks, call, yielded, pulls, open_path,
                   overflow_checks, reader, thread>>

\* The bulk call returns k > 0: the kernel packed the next k objects' records
\* into the start of the buffer.  refill_buffer sets the valid span and resets
\* the cursor, and Iterator::next goes round its loop.
BulkEntries ==
    /\ pc = "syscall"
    /\ \E k \in 1..KernelFit(directory, dirPos, call.attrlist, call.buffer_size) :
          LET Refilled(filled, valid) ==
                  /\ dirPos' = dirPos + k
                  /\ buffer' = filled
                  /\ bytes_valid' = valid
                  /\ NextLoop(filled, valid, 0, exhausted, "entries")
              Filled(filled) == Refilled(filled, find_valid_bytes(filled))
          IN  Filled(KernelWrite(buffer,
                                 KernelRecords(directory, dirPos, k, call.attrlist)))
    /\ UNCHANGED <<directory, fdOpen, closes, dirfd, requested, exhausted,
                   follow_symlinks, pulls, open_path, overflow_checks, reader, thread>>

\* A release that forgets the descriptor.
DropWithoutClose ==
    /\ pc = "idle"
    /\ pc' = "dropped"
    /\ UNCHANGED <<kernelVars, streamVars, call, result, last, yielded, pulls, intr,
                   open_path, overflow_checks, reader, thread>>

\* impl Drop for DirEntries: the stream is released between pulls.
Drop ==
    /\ pc = "idle"
    /\ pc' = "dropped"
    /\ fdOpen' = FALSE
    /\ closes' = closes + 1
    /\ UNCHANGED <<directory, dirPos, streamVars, call, result, last, yielded,
                   pulls, intr, open_path, overflow_checks, reader, thread>>

Next ==
    \/ ReadDir
    \/ ReadDirWithBuffer
    \/ DirReaderBuild
    \/ Pull
    \/ BulkInterrupted
    \/ BulkFailed
    \/ BulkZero
    \/ BulkEntries
    \/ Drop

Spec == Init /\ [][Next]_vars

\* ------------------------------- the stream on records with a bad length

\* Directories with objects whose record has a bad length prefix: up to two
\* objects, no object twice.
CorruptDirectories ==
    {q \in UNION {[1..n -> {FileA, FileZeroLength, FileLongLength}] : n \in 1..2} :
        \A i, j \in 1..Len(q) : i # j => q[i] # q[j]}

CorruptInit ==
    /\ directory \in CorruptDirectories
    /\ dirPos = 0
    /\ fdOpen = FALSE
    /\ closes = 0
    /\ pc = "new"
    /\ dirfd = -1
    /\ buffer = NewBuffer(0)
    /\ bytes_valid = 0
    /\ parser_offset = 0
    /\ requested = DefaultAttributes
    /\ exhausted = FALSE
    /\ follow_symlinks = TRUE
    /\ call = NoCall
    /\ result = "none"
    /\ last = <<"new">>
    /\ yielded = <<>>
    /\ pulls = 0
    /\ intr = 0
    /\ open_path = ""
    /\ overflow_checks = TRUE
    /\ reader = NoReader
    /\ thread = 1

CorruptSpec == CorruptInit /\ [][Next]_vars

\* ------------------------------- a caller that pulls and never stops

\* Directories of well-formed records and of one whose name reference is bad.
LiveDirectories ==
    {q \in UNION {[1..n -> {FileA, DirB, FileBadRef}] : n \in 0..2} :
        \A i, j \in 1..Len(q) : i # j => q[i] # q[j]}

\* The state after read_dir_with_buffer("/dir", attrs, size) returned a stream
\* whose buffer holds any one record of the directory.
LiveInit ==
    /\ directory \in LiveDirectories
    /\ requested \in Requests
    /\ \E size \in BufferSizes : buffer = NewBuffer(size)
    /\ \A i \in 1..Len(directory) :
          KernelFit(directory, i - 1, AttrlistFrom(requested), buffer.len) > 0
    /\ dirPos = 0
    /\ fdOpen = TRUE
    /\ closes = 0
    /\ pc = "idle"
    /\ dirfd = DirFd
    /\ bytes_valid = 0
    /\ parser_offset = 0
    /\ exhausted = FALSE
    /\ follow_symlinks = TRUE
    /\ call = NoCall
    /\ result = "none"
    /\ last = <<"stream">>
    /\ yielded = <<>>
    /\ pulls = 0
    /\ intr = 0
    /\ open_path = "/dir"
    /\ overflow_checks = TRUE
    /\ reader = NoReader
    /\ thread = 1

\* Iterator::next is called on the stream, however often it was called before;
\* the calls are counted up to MaxPulls.
PullAgain ==
    /\ pc = "idle"
    /\ pulls' = IF pulls < MaxPulls THEN pulls + 1 ELSE pulls
    /\ NextLoop(buffer, bytes_valid, parser_offset, exhausted, result)
    /\ UNCHANGED <<kernelVars, dirfd, buffer, bytes_valid, requested, exhausted,
                   follow_symlinks, open_path, overflow_checks, reader, thread>>

LiveNext ==
    \/ PullAgain
    \/ BulkInterrupted
    \/ BulkFailed
    \/ BulkZero
    \/ BulkEntries

\* The caller goes on pulling; the kernel does not interrupt or fail a call
\* for ever when it could return records or zero.
LiveSpec ==
    /\ LiveInit
    /\ [][LiveNext]_vars
    /\ WF_vars(PullAgain)
    /\ SF_vars(BulkEntries)
    /\ SF_vars(BulkZero)


\* ------------------------------------------------- builder.rs: DirReader

\* DirReader::new
DirReaderNew(path) ==
    [path |-> path, attrs |-> DefaultAttributes, buffer_size |-> DefaultBufferSize,
     follow_symlinks |-> TRUE]

\* A setter that starts from no flags.
SetFlagAlone(attrs, flag) == [DefaultAttributes EXCEPT ![flag] = TRUE]

\* self.attrs.<flag> = true
SetFlag(attrs, flag) == [attrs EXCEPT ![flag] = TRUE]

\* The paths readers are made for.
ReaderPaths == {"/dir", "/missing"}

\* A reader was made by DirReader::new.
BuilderInit ==
    /\ reader \in {DirReaderNew(path) : path \in ReaderPaths}
    /\ pc = "builder"
    /\ last = <<"new">>
    /\ directory = <<>>
    /\ dirPos = 0
    /\ fdOpen = FALSE
    /\ closes = 0
    /\ dirfd = -1
    /\ buffer = NewBuffer(0)
    /\ bytes_valid = 0
    /\ parser_offset = 0
    /\ requested = DefaultAttributes
    /\ exhausted = FALSE
    /\ follow_symlinks = TRUE
    /\ call = NoCall
    /\ result = "none"
    /\ yielded = <<>>
    /\ pulls = 0
    /\ intr = 0
    /\ open_path = ""
    /\ overflow_checks = TRUE
    /\ thread = 1

\* What a setter of the builder leaves alone.
builderFrame ==
    <<kernelVars, streamVars, pc, call, result, yielded, pulls, intr, open_path,
      overflow_checks, thread>>

\* DirReader::name, object_type, size, alloc_size, modified_time, permissions,
\* inode, entry_count: each sets the flag of its name.
DirReaderSet(flag) ==
    /\ pc = "builder"
    /\ reader' = [reader EXCEPT !.attrs = SetFlag(@, flag)]
    /\ last' = <<"set", flag>>
    /\ UNCHANGED builderFrame

\* DirReader::all_attributes
DirReaderAllAttributes ==
    /\ pc = "builder"
    /\ reader' = [reader EXCEPT !.attrs = AllAttributes]
    /\ last' = <<"all_attributes">>
    /\ UNCHANGED builderFrame

\* DirReader::attributes
DirReaderAttributes(attrs) ==
    /\ pc = "builder"
    /\ reader' = [reader EXCEPT !.attrs = attrs]
    /\ last' = <<"attributes">>
    /\ UNCHANGED builderFrame

\* DirReader::buffer_size
DirReaderBufferSize(size) ==
    /\ pc = "builder"
    /\ reader' = [reader EXCEPT !.buffer_size = size]
    /\ last' = <<"buffer_size", size>>
    /\ UNCHANGED builderFrame

\* DirReader::follow_symlinks
DirReaderFollowSymlinks(follow) ==
    /\ pc = "builder"
    /\ reader' = [reader EXCEPT !.follow_symlinks = follow]
    /\ last' = <<"follow_symlinks", follow>>
    /\ UNCHANGED builderFrame

\* DirReader::read on the reader configured.
DirReaderReads ==
    /\ pc = "builder"
    /\ DirReaderRead(reader.path, reader.attrs, reader.buffer_size,
                     reader.follow_symlinks)

BuilderNext ==
    \/ \E flag \in FieldNames : DirReaderSet(flag)
    \/ DirReaderAllAttributes
    \/ \E attrs \in Requests : DirReaderAttributes(attrs)
    \/ \E size \in BufferSizes : DirReaderBufferSize(size)
    \/ \E follow \in BOOLEAN : DirReaderFollowSymlinks(follow)
    \/ DirReaderReads

BuilderSpec == BuilderInit /\ [][BuilderNext]_vars

\* --------------------------------------------- iter.rs: unsafe impl Send

\* The threads of the program.
Threads == {1, 2}

\* A handing over that does not wait for the pull to return.
SendDuringPull ==
    /\ pc \in {"idle", "syscall"}
    /\ thread' \in Threads \ {thread}
    /\ UNCHANGED <<kernelVars, streamVars, pc, call, result, last, yielded, pulls,
                   intr, open_path, overflow_checks, reader>>

\* The stream is moved to another thread.  DirEntries is Send; Iterator::next
\* and Drop::drop take &mut self, so the stream can be moved only while no
\* pull borrows it.
Send ==
    /\ pc = "idle"
    /\ thread' \in Threads \ {thread}
    /\ UNCHANGED <<kernelVars, streamVars, pc, call, result, last, yielded, pulls,
                   intr, open_path, overflow_checks, reader>>

\* The streams that are handed between threads: over directories of at most
\* one object.
SendInit == Init /\ Len(directory) <= 1

SendNext == Next \/ Send

SendSpec == SendInit /\ [][SendNext]_vars

\* ------------------------------------------- the decoder on synthetic bytes

\* i32::to_ne_bytes
LE32i(n) == IF n >= 0 THEN LE32(n) ELSE [LE32((n + I32Max) + 1) EXCEPT ![4] = @ + 128]

AllOnes(n) == [k \in 1..n |-> 255]

\* Field values to pack.  name is the name data as packed, text the code
\* points it spells up to its first zero byte, gap the unused bytes between the
\* fixed fields and the name data.
ValuesA ==
    [name |-> <<97, 0>>, text |-> <<97>>, gap |-> 0, vtype |-> LE32(1),
     sec |-> LE64(5), nsec |-> LE64(7), mode |-> LE32(420), fileid |-> LE64(3),
     size |-> LE64(11), alloc |-> LE64(16), children |-> LE32(2)]

\* Large values, a two-byte character in the name, the name data away from the
\* fields.
ValuesB ==
    [name |-> <<195, 169, 0>>, text |-> <<233>>, gap |-> 8, vtype |-> LE32(5),
     sec |-> LE64(1700000000), nsec |-> LE64(999999999), mode |-> AllOnes(4),
     fileid |-> AllOnes(8), size |-> AllOnes(8),
     alloc |-> <<0, 0, 0, 0, 0, 0, 0, 128>>, children |-> AllOnes(4)]

\* A modification time one second before the epoch; name data with a zero byte
\* before its end.
ValuesC ==
    [name |-> <<99, 0, 120, 0>>, text |-> <<99>>, gap |-> 0, vtype |-> LE32(9),
     sec |-> AllOnes(8), nsec |-> LE64(0), mode |-> LE32(0), fileid |-> LE64(0),
     size |-> LE64(0), alloc |-> LE64(0), children |-> LE32(0)]

\* The record with these fields present and these values.  ref = <<>> packs
\* the reference that points at the name data, ref = <<offset, length>> packs
\* these two numbers instead; length = <<>> packs the record's true length,
\* length = <<n>> packs n as the length prefix.
Wire(bits, values) == [bits |-> bits, ref |-> <<>>, length |-> <<>>] @@ values

\* The returned attribute_set of a record with these fields.
WireAttributeSet(bits) ==
    LET bit(f, v) == IF f \in bits THEN v ELSE 0
    IN  <<bit("name", 1) + bit("object_type", 8), bit("modified_time", 4),
          bit("permissions", 2), 128 + bit("inode", 2)>>
        \o ZeroWord
        \o <<bit("entry_count", 2), 0, 0, 0>>
        \o <<bit("size", 2) + bit("alloc_size", 4), 0, 0, 0>>
        \o ZeroWord

\* The fixed fields after the name reference, in the packing order.
WireFixed(w) ==
    LET opt(f, bytes) == IF f \in w.bits THEN bytes ELSE <<>>
    IN  opt("object_type", w.vtype) \o opt("modified_time", w.sec \o w.nsec)
        \o opt("permissions", w.mode) \o opt("inode", w.fileid)
        \o opt("size", w.size) \o opt("alloc_size", w.alloc)
        \o opt("entry_count", w.children)

\* The bytes of the record: length prefix, attribute_set, name reference, fixed
\* fields, gap, name data, padded to a multiple of 8.
PackWire(w) ==
    LET Put(fixed) ==
            LET ref == IF w.ref = <<>>
                       THEN LE32i(8 + Len(fixed) + w.gap) \o LE32(Len(w.name))
                       ELSE LE32i(w.ref[1]) \o LE32(w.ref[2])
                body == WireAttributeSet(w.bits)
                        \o (IF "name" \in w.bits THEN ref ELSE <<>>)
                        \o fixed
                        \o [k \in 1..w.gap |-> 0]
                        \o (IF "name" \in w.bits THEN w.name ELSE <<>>)
                total == Len(Pad8(ZeroWord \o body))
            IN  Pad8(LE32(IF w.length = <<>> THEN total ELSE w.length[1]) \o body)
    IN  Put(WireFixed(w))

\* The length prefix the record carries.
DeclaredLength(w) == IF w.length = <<>> THEN Len(PackWire(w)) ELSE w.length[1]

\* Packed as the format says: its own reference and its own length.
Plain(w) == w.ref = <<>> /\ w.length = <<>>

\* Records that depart from the format: a zero length prefix; a length prefix
\* that ends the record within its attribute_set; a length prefix that ends
\* the record before its fields; name references that leave the buffer at
\* either end.
Malformed ==
    {[Wire({"name"}, ValuesA) EXCEPT !.length = <<0>>],
     [Wire({}, ValuesA) EXCEPT !.length = <<8>>],
     [Wire({"size"}, ValuesA) EXCEPT !.length = <<16>>],
     [Wire({"object_type"}, ValuesA) EXCEPT !.length = <<24>>],
     [Wire({"name", "size"}, ValuesA) EXCEPT !.length = <<32>>]}
    \cup {[Wire(bits, ValuesA) EXCEPT !.ref = r] :
            bits \in {{"name"}, {"name", "object_type"}},
            r \in {<<-40, 20>>, <<-40, 14>>, <<-40, 4>>, <<-24, 4>>, <<I32Max, 4>>,
                   <<1000000, 2>>, <<8, 200>>}}

\* Name data that is not UTF-8, with the text it decodes to: a byte that is
\* never valid, a continuation byte without a lead, a lead without its
\* continuation, an overlong pair, a lead cut off by the end of the data.
InvalidNames ==
    {[name |-> <<255, 0>>, text |-> <<ReplacementChar>>],
     [name |-> <<97, 128, 98, 0>>, text |-> <<97, ReplacementChar, 98>>],
     [name |-> <<195, 40, 0>>, text |-> <<ReplacementChar, 40>>],
     [name |-> <<192, 175, 0>>, text |-> <<ReplacementChar, ReplacementChar>>],
     [name |-> <<98, 195>>, text |-> <<98, ReplacementChar>>]}

\* Records whose name data is not UTF-8.
InvalidlyNamed ==
    {[Wire(bits, ValuesA) EXCEPT !.name = n.name, !.text = n.text] :
        bits \in {{"name"}, {"name", "object_type", "size"}}, n \in InvalidNames}

\* The records the decoder is tried on: every set of fields with each of the
\* values, the malformed ones, and the ones with invalid names.
TestRecords ==
    {Wire(bits, v) : bits \in SUBSET FieldNames, v \in {ValuesA, ValuesB, ValuesC}}
    \cup Malformed \cup InvalidlyNamed

\* Records that may precede the one tried.
LeadRecords == {Wire({"name"}, ValuesA), Wire(FieldNames, ValuesB)}

\* Records before the one the decoder is tried on.
MaxLead == 1

\* The buffers' contents: up to MaxLead well-formed records, then the record
\* tried.
ParserDirectories ==
    {leads \o <<t>> :
        leads \in UNION {[1..n -> LeadRecords] : n \in 0..MaxLead},
        t \in TestRecords}

\* <<cut, slack>>: bytes_valid ends cut bytes before the end of the records,
\* the buffer goes on slack zero bytes after them.
Trims == {<<0, 0>>, <<8, 0>>, <<0, 16>>}

WireBytes(ws) == Concat([i \in 1..Len(ws) |-> PackWire(ws[i])])

ParserInit ==
    /\ directory \in ParserDirectories
    /\ \E trim \in Trims :
          /\ buffer = [len |-> Len(WireBytes(directory)) + trim[2],
                       data |-> WireBytes(directory)]
          /\ bytes_valid = Len(WireBytes(directory)) - trim[1]
    /\ overflow_checks \in BOOLEAN
    /\ reader = NoReader
    /\ thread = 1
    /\ requested = DefaultAttributes
    /\ parser_offset = 0
    /\ dirPos = 0
    /\ pc = "parser"
    /\ last = <<"new">>
    /\ fdOpen = FALSE
    /\ closes = 0
    /\ dirfd = -1
    /\ exhausted = FALSE
    /\ follow_symlinks = TRUE
    /\ call = NoCall
    /\ result = "none"
    /\ yielded = <<>>
    /\ pulls = 0
    /\ intr = 0
    /\ open_path = ""

\* The BufferParser over buffer, with parser_offset as its offset.
TheParser ==
    [buffer |-> buffer, offset |-> parser_offset, bytes_valid |-> bytes_valid,
     requested |-> requested]

\* BufferParser::next_entry is called: last is what it returned, dirPos counts
\* the entries decoded.  A panic ends the run.
ParserNextEntry ==
    /\ pc = "parser"
    /\ LET Got(r) ==
               /\ last' = <<"next_entry", r.item>>
               /\ parser_offset' = r.offset
               /\ pc' = IF r.item # None /\ ~r.item[1].ok /\ r.item[1].err = "panic"
                        THEN "panicked" ELSE "parser"
               /\ dirPos' = IF r.item # None /\ r.item[1].ok THEN dirPos + 1 ELSE dirPos
       IN  Got(next_entry(TheParser))
    /\ UNCHANGED <<directory, fdOpen, closes, dirfd, buffer, bytes_valid, requested,
                   exhausted, follow_symlinks, call, result, yielded, pulls, intr,
                   open_path, overflow_checks, reader, thread>>

ParserNext == ParserNextEntry

ParserSpec == ParserInit /\ [][ParserNext]_vars

\* ------------------------------------------ the object type of every code

\* The 32-bit codes the mapping is tried on, as byte tuples: 0 to 9, codes
\* that agree with 1..7 in their low byte only, and the largest ones.
TypeCodes ==
    {LE32(n) : n \in 0..9}
    \cup {<<low, 1, 0, 0>> : low \in 0..7}
    \cup {<<low, 0, 0, 1>> : low \in 1..7}
    \cup {<<7, 0, 0, 128>>, <<0, 0, 0, 128>>, <<255, 255, 255, 127>>,
           <<255, 255, 255, 255>>}

\* No conversion was made yet.
TypeInit ==
    /\ pc = "types"
    /\ last = <<"new">>
    /\ directory = <<>>
    /\ dirPos = 0
    /\ fdOpen = FALSE
    /\ closes = 0
    /\ dirfd = -1
    /\ buffer = NewBuffer(0)
    /\ bytes_valid = 0
    /\ parser_offset = 0
    /\ requested = DefaultAttributes
    /\ exhausted = FALSE
    /\ follow_symlinks = TRUE
    /\ call = NoCall
    /\ result = "none"
    /\ yielded = <<>>
    /\ pulls = 0
    /\ intr = 0
    /\ open_path = ""
    /\ overflow_checks = TRUE
    /\ reader = NoReader
    /\ thread = 1

\* ObjectType::from is applied to two codes; last holds each code with its
\* classification.
ConvertTypes ==
    /\ pc = "types"
    /\ \E c \in TypeCodes, d \in TypeCodes :
          last' = <<"ObjectType::from", <<c, ObjectTypeFrom(c)>>,
                    <<d, ObjectTypeFrom(d)>>>>
    /\ UNCHANGED <<directory, dirPos, fdOpen, closes, pc, dirfd, buffer,
                   bytes_valid, parser_offset, requested, exhausted,
                   follow_symlinks, call, result, yielded, pulls, intr,
                   open_path, overflow_checks, reader, thread>>

TypeNext == ConvertTypes

TypeSpec == TypeInit /\ [][TypeNext]_vars

\* ------------------------------------- the attrlist of every set of flags

\* RequestedAttributes has eight public bool fields: every combination.
AllRequests == [FieldNames -> BOOLEAN]

\* A RequestedAttributes value is built, its fields' setters may be called
\* (with_name, with_size, ...), and it is converted into the attrlist.
AttrInit ==
    /\ requested \in AllRequests
    /\ pc = "attrs"
    /\ call = NoCall
    /\ directory = <<>>
    /\ dirPos = 0
    /\ fdOpen = FALSE
    /\ closes = 0
    /\ dirfd = -1
    /\ buffer = NewBuffer(0)
    /\ bytes_valid = 0
    /\ parser_offset = 0
    /\ exhausted = FALSE
    /\ follow_symlinks = TRUE
    /\ result = "none"
    /\ last = <<"new">>
    /\ yielded = <<>>
    /\ pulls = 0
    /\ intr = 0
    /\ open_path = ""
    /\ overflow_checks = TRUE
    /\ reader = NoReader
    /\ thread = 1

\* RequestedAttributes::with_name .. with_entry_count: the flag is set.
With(flag) ==
    /\ pc = "attrs"
    /\ requested' = [requested EXCEPT ![flag] = TRUE]
    /\ UNCHANGED <<directory, dirPos, fdOpen, closes, pc, dirfd, buffer,
                   bytes_valid, parser_offset, exhausted, follow_symlinks, call,
                   result, last, yielded, pulls, intr, open_path, overflow_checks,
                   reader, thread>>

\* ffi::attrlist::from(requested)
IntoAttrlist ==
    /\ pc = "attrs"
    /\ pc' = "encoded"
    /\ call' = [call EXCEPT !.attrlist = AttrlistFrom(requested)]
    /\ UNCHANGED <<directory, dirPos, fdOpen, closes, dirfd, buffer,
                   bytes_valid, parser_offset, requested, exhausted,
                   follow_symlinks, result, last, yielded, pulls, intr,
                   open_path, overflow_checks, reader, thread>>

AttrNext ==
    \/ \E flag \in FieldNames : With(flag)
    \/ IntoAttrlist

AttrSpec == AttrInit /\ [][AttrNext]_vars

\* ------------------------------------------------------------ the claims

\* What the claims read off the history.
IsSyscallError(it) == ~it.ok /\ it.err[1] = "Syscall"

IsParseError(it) == ~it.ok /\ it.err[1] = "Parse"

IsEntry(it) == it.ok

\* The entries among the items the pulls returned, in order.
YieldedEntries == SelectSeq(yielded, IsEntry)

\* Every object of the directory is packed in the documented format.
WellFormed == \A i \in 1..Len(directory) : directory[i].quirk = "ok"

\* The stream has reported its end.
Finished == exhausted /\ last = <<"pull", None>>

\* The entry a record decodes to when it is alone in a buffer of its size.
DecodeAlone(rec) ==
    next_entry(NewParser([len |-> Len(rec), data |-> rec], Len(rec), requested)).item[1]

\* The decoded records the kernel has placed in the buffer so far, call after
\* call, in its order.
Placed == [i \in 1..dirPos |-> DecodeAlone(KernelRecord(directory[i], call.attrlist))]

IsPrefix(p, q) == Len(p) <= Len(q) /\ SubSeq(q, 1, Len(p)) = p

RECURSIVE BagOfSeq(_)
BagOfSeq(q) == IF q = <<>> THEN EmptyBag ELSE SetToBag({Head(q)}) (+) BagOfSeq(Tail(q))

\* C1: once a pull has returned a Syscall error, that error is the last item the
\* stream ever yields and no further bulk call is issued.
C1_SyscallErrorEndsStream ==
    \A i \in 1..Len(yielded) :
        IsSyscallError(yielded[i]) => (i = Len(yielded) /\ pc # "syscall")

\* C2: a pull that returns a decode error leaves the read cursor strictly after
\* where the pull found it (after 0, when the pull refilled the buffer first).
C2_DecodeErrorAdvancesCursor ==
    [][(pc' = "idle" /\ pulls' = pulls + 1 /\ last'[1] = "pull" /\ last'[2] # None
           /\ IsParseError(last'[2][1]))
         => parser_offset' > parser_offset]_vars

\* C3: for a directory of well-formed records, the entries yielded are at every
\* moment a prefix of the records the kernel has placed, decoded, in its order,
\* and all of them once the stream has reported its end.
C3_YieldsPlacedRecordsInOrder ==
    WellFormed =>
        /\ IsPrefix(YieldedEntries, Placed)
        /\ Finished => YieldedEntries = Placed

\* C4: a step that is an interrupted bulk call re-issues the call with the same
\* arguments and changes nothing else: no item is yielded, and the handle, the
\* buffer, the valid-byte count, the cursor, the exhausted flag and the kernel's
\* position stay as they were.
C4_InterruptedCallIsInvisible ==
    [][(pc = "syscall" /\ intr' = intr + 1)
         => /\ pc' = "syscall"
            /\ call' = call
            /\ call'.dirfd = dirfd /\ call'.buffer_size = buffer.len
            /\ UNCHANGED <<yielded, last, pulls, streamVars, kernelVars>>]_vars

\* C4's case: a bulk call was interrupted and re-issued after the stream had
\* already yielded an entry and moved its cursor.
C4_Witness == pc = "syscall" /\ intr >= 1 /\ yielded # <<>> /\ parser_offset > 0

\* C5: a pull gives up re-issuing an interrupted bulk call: it is never inside
\* the call again after MaxIntr interruptions.
C5_RetryIsBounded == ~(pc = "syscall" /\ intr = MaxIntr)

\* C6: once a bulk call has returned zero, the zero stays the outcome of the
\* last bulk call (no further call is issued, the stream is never inside one),
\* nothing more is yielded, and every pull returns end-of-stream.
C6_ZeroIsTerminal ==
    [][/\ result' = "zero" => (pc' # "syscall" /\ last' = <<"pull", None>>)
       /\ result = "zero" => (result' = "zero" /\ yielded' = yielded)]_vars

\* C6's case: the bulk call returned zero after entries were yielded, and at
\* least one more pull was made after it.
C6_Witness ==
    /\ result = "zero"
    /\ Len(yielded) >= 1
    /\ \A i \in 1..Len(yielded) : IsEntry(yielded[i])
    /\ pulls >= Len(yielded) + 2

\* C7: the multiset of names a finished stream has yielded is that of the
\* directory, whatever the buffer capacity; so two capacities give the same.
C7_NamesIndependentOfCapacity ==
    (WellFormed /\ requested.name /\ Finished /\ \A i \in 1..Len(yielded) : IsEntry(yielded[i]))
        => BagOfSeq([i \in 1..Len(yielded) |-> yielded[i].val.name])
           = BagOfSeq([i \in 1..Len(directory) |-> directory[i].name])

\* C8: the attribute list of every bulk call has the name bit set.
C8_NameBitAlwaysRequested == pc = "syscall" => Has(call.attrlist.commonattr, NAME)

\* C9: every entry yielded carries a name: that of the object the kernel packed.
C9_EveryEntryHasName ==
    \A i \in 1..Len(yielded) : IsEntry(yielded[i]) => yielded[i].val.name # <<>>

\* C10: on every entry yielded, each optional field whose flag the request did
\* not set is None.
C10_UnrequestedFieldsAbsent ==
    \A i \in 1..Len(yielded) :
        IsEntry(yielded[i]) =>
            \A f \in {"object_type", "size", "alloc_size", "modified_time",
                      "permissions", "inode", "entry_count"} :
                ~requested[f] => yielded[i].val[f] = None

\* C11: the descriptor of a constructed stream is open as long as the stream
\* lives and is closed exactly once by its release, whatever the pulls returned
\* before; without a stream (none yet, or the construction failed) nothing is
\* open and nothing was closed.
C11_HandleClosedOnce ==
    /\ pc \in {"new", "open_failed"} => (~fdOpen /\ closes = 0)
    /\ pc \in {"idle", "syscall"} => (fdOpen /\ closes = 0)
    /\ pc = "dropped" => (~fdOpen /\ closes = 1)

\* C11's case: a stream released after it had yielded a Syscall error and a
\* decode error.
C11_Witness ==
    /\ pc = "dropped"
    /\ closes = 1
    /\ \E i \in 1..Len(yielded) : IsSyscallError(yielded[i])
    /\ \E i \in 1..Len(yielded) : IsParseError(yielded[i])

\* C12: when the path given to the constructor cannot be opened as a directory
\* (it has a null byte, or open(2) fails on it), the construction has returned
\* an Open error, there is no stream, and no bulk call was issued.
C12_OpenFailureBeforeAnyCall ==
    (open_path # "" /\ (HasNullByte(open_path) \/ ~KernelOpen(open_path).ok))
        => /\ pc = "open_failed"
           /\ last[1] = "open_error" /\ last[2][1] = "Open"
           /\ call = NoCall /\ result = "none" /\ pulls = 0
           /\ ~fdOpen

\* C12's case: the construction failed on a path that is not a directory.
C12_Witness ==
    /\ pc = "open_failed"
    /\ open_path = "/file"
    /\ last = <<"open_error", ErrorOpen("ENOTDIR")>>

\* C13: on an empty directory, when the bulk call of the first pull returned
\* zero, the stream has yielded no entry and no error and the pull returned
\* end-of-stream.
C13_EmptyDirectoryYieldsNothing ==
    (directory = <<>> /\ result = "zero" /\ pulls = 1)
        => (yielded = <<>> /\ last = <<"pull", None>>)

\* C13's case: the first pull on an empty directory has returned.
C13_Witness ==
    /\ directory = <<>>
    /\ result = "zero"
    /\ pulls = 1
    /\ pc = "idle"
    /\ yielded = <<>>

\* What the decoder's claims read off a step of ParserSpec: the record the
\* call of next_entry is about, the one after those already decoded.
Tried == directory[dirPos + 1]

\* next_entry is called with a record left to decode, starting at the offset.
Trying == pc = "parser" /\ dirPos < Len(directory) /\ parser_offset < bytes_valid

\* The record tried lies within the valid bytes.
Whole == parser_offset + Len(PackWire(Tried)) <= bytes_valid

\* The entry whose fields are the values packed in w: the name's text, the
\* object type of the vtype, the time tv_sec seconds and tv_nsec nanoseconds
\* after the epoch, the other fields as packed; None for a field not packed.
PackedEntry(w) ==
    LET opt(f, v) == IF f \in w.bits THEN Some(v) ELSE None
    IN  [name |-> IF "name" \in w.bits THEN w.text ELSE <<>>,
         object_type |-> opt("object_type", ObjectTypeFrom(w.vtype)),
         size |-> opt("size", w.size),
         alloc_size |-> opt("alloc_size", w.alloc),
         modified_time |-> opt("modified_time",
                               [secs |-> w.sec, nanos |-> i32_from(SubSeq(w.nsec, 1, 4))]),
         permissions |-> opt("permissions", w.mode),
         inode |-> opt("inode", w.fileid),
         entry_count |-> opt("entry_count", w.children)]

\* C14: a record packed in the fixed order with any set of the eight fields and
\* any of the values decodes to the entry with exactly the packed values in the
\* fields present and None in the others.
C14_RoundTrip ==
    [][(Trying /\ Plain(Tried) /\ Whole)
         => last' = <<"next_entry", Some(Ok(PackedEntry(Tried)))>>]_vars

\* Where the fixed fields of the record end, counted from its start: 24 bytes
\* of length prefix and attribute_set, 8 of name reference, the fields packed.
FieldsEnd(w) == 24 + (IF "name" \in w.bits THEN 8 ELSE 0) + Len(WireFixed(w))

\* C15: a record whose length prefix ends it before the end of its fixed
\* fields, the buffer holding bytes beyond, decodes to UnexpectedEnd and to no
\* entry.
C15_ReadsStayInsideRecord ==
    [][(Trying /\ DeclaredLength(Tried) # 0
          /\ parser_offset + DeclaredLength(Tried) <= bytes_valid
          /\ DeclaredLength(Tried) < FieldsEnd(Tried))
         => (last' = <<"next_entry", Some(Err("UnexpectedEnd"))>> /\ dirPos' = dirPos)]_vars

\* The name reference of the record as <<offset, length>>.
RefOf(w) == IF w.ref = <<>> THEN <<8 + Len(WireFixed(w)) + w.gap, Len(w.name)>> ELSE w.ref

\* The name range of the record tried, which starts ref[1] bytes from its
\* reference field at parser_offset + 24, lies within the buffer.
RangeInBuffer(ref) ==
    /\ ref[1] <= buffer.len
    /\ parser_offset + 24 + ref[1] >= 0
    /\ parser_offset + 24 + ref[1] <= buffer.len
    /\ ref[2] <= buffer.len - (parser_offset + 24 + ref[1])

\* C16: a record whose name range does not lie within the buffer decodes to
\* InvalidOffset: the decoder does not panic and returns no entry.
C16_BadRangeIsInvalidOffset ==
    [][(Trying /\ Whole /\ "name" \in Tried.bits /\ ~RangeInBuffer(RefOf(Tried)))
         => (last' = <<"next_entry", Some(Err("InvalidOffset"))>> /\ pc' = "parser")]_vars

\* C17: a record whose length prefix exceeds the valid bytes that remain
\* decodes to BufferTooSmall; the decoder does not panic and does not move.
C17_LongRecordIsBufferTooSmall ==
    [][(Trying /\ parser_offset + 4 <= buffer.len /\ DeclaredLength(Tried) # 0
          /\ parser_offset + DeclaredLength(Tried) > bytes_valid)
         => /\ last' = <<"next_entry", Some(Err("BufferTooSmall"))>>
            /\ pc' = "parser"
            /\ parser_offset' = parser_offset /\ dirPos' = dirPos]_vars

\* C17's case: after a first record was decoded, the second one reached past
\* the valid bytes.
C17_Witness ==
    /\ pc = "parser"
    /\ last = <<"next_entry", Some(Err("BufferTooSmall"))>>
    /\ Len(directory) = 2 /\ dirPos = 1 /\ parser_offset > 0
    /\ parser_offset + DeclaredLength(directory[2]) > bytes_valid

\* C18: a record whose length prefix is zero decodes to InvalidEntryLength and
\* to no entry.
C18_ZeroLengthIsInvalid ==
    [][(Trying /\ parser_offset + 4 <= buffer.len /\ DeclaredLength(Tried) = 0)
         => /\ last' = <<"next_entry", Some(Err("InvalidEntryLength"))>>
            /\ pc' = "parser"
            /\ dirPos' = dirPos]_vars

\* C18's case: after a first record was decoded, the decoder met a record with
\* a zero length prefix.
C18_Witness ==
    /\ pc = "parser"
    /\ last = <<"next_entry", Some(Err("InvalidEntryLength"))>>
    /\ Len(directory) = 2 /\ dirPos = 1
    /\ DeclaredLength(directory[2]) = 0

\* The modification time of the record, if it has one, is not before the epoch.
TimeDecodes(w) == "modified_time" \notin w.bits \/ w.sec[8] < 128

\* The entry packed in the record tried, with the name the reference ref
\* designates: the bytes of the range that starts ref[1] bytes from the
\* reference field, ref[2] long, up to the first zero byte.
EntryNamedBy(ref) ==
    [PackedEntry(Tried) EXCEPT
        !.name = from_utf8_lossy(
                     UntilNull(Bytes(buffer, parser_offset + 24 + ref[1], ref[2])))]

\* C19: the name decoded is the text of the range that starts at the position
\* of the reference field plus its offset and spans its length, cut at the
\* first zero byte; the fields after the reference are decoded from 8 bytes
\* after its position.
C19_NameRangeFromReference ==
    [][(Trying /\ Whole /\ Tried.length = <<>> /\ "name" \in Tried.bits
          /\ RangeInBuffer(RefOf(Tried)) /\ TimeDecodes(Tried))
         => last' = <<"next_entry", Some(Ok(EntryNamedBy(RefOf(Tried))))>>]_vars

\* C19's case: the second record of a buffer, with a zero byte inside its name
\* range and an object type after the reference, was decoded.
C19_Witness ==
    /\ pc = "parser"
    /\ Len(directory) = 2 /\ dirPos = 2
    /\ directory[2].name = <<99, 0, 120, 0>>
    /\ "object_type" \in directory[2].bits
    /\ last[1] = "next_entry" /\ last[2] # None /\ last[2][1].ok
    /\ last[2][1].val.name = <<99>>
    /\ last[2][1].val.object_type # None

\* 1 for a flag that is set, 0 for one that is not.
N(flag) == IF flag THEN 1 ELSE 0

\* The request block the kernel interface documents for a set of flags, as
\* little-endian words: 0x80000000 and name 0x1, object type 0x8, modified
\* time 0x400, permissions 0x20000, unique id 0x2000000 in the common word;
\* size 0x2, allocated size 0x4 in the file word; child count 0x2 in the
\* directory word.
DocumentedAttrlist(req) ==
    [bitmapcount |-> 5, reserved |-> 0,
     commonattr |-> <<N(req.name) + 8 * N(req.object_type), 4 * N(req.modified_time),
                      2 * N(req.permissions), 128 + 2 * N(req.inode)>>,
     volattr |-> <<0, 0, 0, 0>>,
     dirattr |-> <<2 * N(req.entry_count), 0, 0, 0>>,
     fileattr |-> <<2 * N(req.size) + 4 * N(req.alloc_size), 0, 0, 0>>,
     forkattr |-> <<0, 0, 0, 0>>]

\* C20: for every set of the eight flags the attrlist encoded is the
\* documented one: count 5, reserved 0, volume and fork words 0, 0x80000000
\* set, and exactly the bits of the flags that are set.
C20_AttrlistOfEveryFlagSet ==
    pc = "encoded" => call.attrlist = DocumentedAttrlist(requested)

\* C20's case: a set of flags with some of each word set and some not was
\* encoded.
C20_Witness ==
    /\ pc = "encoded"
    /\ requested.inode /\ requested.modified_time /\ ~requested.name
    /\ requested.alloc_size /\ ~requested.size
    /\ requested.entry_count
    /\ call.attrlist.commonattr = <<0, 4, 0, 130>>

\* C21: every bulk call issued, a retry after an interruption included,
\* carries an options mask with bit 0x8 set, and with bit 0x1 set exactly when
\* the stream does not follow symbolic links.
C21_OptionsOfEveryCall ==
    pc = "syscall"
        => /\ (call.options \div 8) % 2 = 1
           /\ (call.options % 2 = 1) <=> ~follow_symlinks

\* C21's case: a stream that does not follow symbolic links is inside a bulk
\* call it issued again after an interruption.
C21_Witness ==
    /\ pc = "syscall"
    /\ intr >= 1
    /\ ~follow_symlinks
    /\ call.options = 9

\* The classifications of the codes 1 to 7, in the order of the codes.
DocumentedTypes ==
    <<"Regular", "Directory", "BlockDevice", "CharDevice", "Symlink", "Socket",
      "Fifo">>

\* The classification documented for a code: its name for 1 to 7, else the
\* unrecognized variant with the code.
DocumentedType(code) ==
    IF code[2] = 0 /\ code[3] = 0 /\ code[4] = 0 /\ code[1] \in 1..7
    THEN <<DocumentedTypes[code[1]]>>
    ELSE <<"Unknown", code>>

\* C22: every code maps to its documented classification, the codes other
\* than 1 to 7 to the unrecognized variant carrying the code, and two codes
\* with the same classification are the same code.
C22_ObjectTypeOfEveryCode ==
    last[1] = "ObjectType::from"
        => /\ last[2][2] = DocumentedType(last[2][1])
           /\ last[3][2] = DocumentedType(last[3][1])
           /\ last[2][2] = last[3][2] => last[2][1] = last[3][1]

\* C22's case: a code that agrees with 5 in its low byte only was converted
\* next to the code 5.
C22_Witness ==
    /\ last[1] = "ObjectType::from"
    /\ last[2] = <<LE32(5), <<"Symlink">>>>
    /\ last[3] = <<<<5, 1, 0, 0>>, <<"Unknown", <<5, 1, 0, 0>>>>>>

\* C23: a record whose name range lies within the buffer decodes to an entry,
\* never to an error, whatever bytes the range holds; the name is their text
\* with each invalid sequence replaced by U+FFFD.
C23_NameDecodingIsTotal ==
    [][(Trying /\ Whole /\ Plain(Tried) /\ "name" \in Tried.bits /\ TimeDecodes(Tried))
         => /\ pc' = "parser"
            /\ last'[2] # None /\ last'[2][1].ok
            /\ last'[2][1].val.name = Tried.text]_vars

\* C23's case: a record whose name data holds a byte that is not valid UTF-8
\* between two letters was decoded.
C23_Witness ==
    /\ pc = "parser"
    /\ dirPos = Len(directory)
    /\ directory[Len(directory)].name = <<97, 128, 98, 0>>
    /\ last[1] = "next_entry" /\ last[2] # None /\ last[2][1].ok
    /\ last[2][1].val.name = <<97, ReplacementChar, 98>>

C25_SettersChangeTheirOwnField ==
    [][/\ \A flag \in FieldNames :
             last' = <<"set", flag>>
                 => /\ reader'.attrs[flag]
                    /\ \A other \in FieldNames \ {flag} :
                          reader'.attrs[other] = reader.attrs[other]
                    /\ reader'.buffer_size = reader.buffer_size
                    /\ reader'.follow_symlinks = reader.follow_symlinks
                    /\ reader'.path = reader.path
       /\ last'[1] = "buffer_size"
             => /\ reader'.buffer_size = last'[2]
                /\ reader'.attrs = reader.attrs
                /\ reader'.follow_symlinks = reader.follow_symlinks
                /\ reader'.path = reader.path]_vars

\* C25's case: on a reader with a buffer size of its own that does not follow
\* symbolic links, size was set after name and object_type.
C25_Witness ==
    /\ pc = "builder"
    /\ last = <<"set", "size">>
    /\ reader.attrs = [DefaultAttributes EXCEPT !.name = TRUE, !.object_type = TRUE,
                                                !.size = TRUE]
    /\ reader.buffer_size = 96
    /\ ~reader.follow_symlinks

\* The offsets a scan of length prefixes from the offsets in S comes to: from
\* an offset with 4 bytes left in the buffer, a prefix that is not zero and a
\* record that ends within the buffer, the end of that record.
RECURSIVE ScanFrom(_, _)
ScanFrom(buf, S) ==
    LET Prefix(o) == usize_from(Bytes(buf, o, 4))
        Goes(o) == o + 4 <= buf.len /\ Prefix(o) # 0 /\ Prefix(o) <= buf.len - o
        T == S \cup {o + Prefix(o) : o \in {u \in S : Goes(u)}}
    IN  IF T = S THEN S ELSE ScanFrom(buf, T)

\* Where the scan from offset 0 stops: the sum of the leading length prefixes.
ScannedSpan(buf) ==
    LET S == ScanFrom(buf, {0}) IN CHOOSE o \in S : \A u \in S : u <= o

\* A step in which a bulk call returns a positive result.
PositiveResult == pc = "syscall" /\ dirPos' > dirPos

\* C26: when a bulk call returns a positive result, the valid span becomes
\* the sum of the leading length prefixes of the buffer, scanned from offset 0
\* up to a zero prefix, a record past the buffer's end or fewer than 4 bytes
\* left; the cursor restarts at 0, so that the item the pull returns is
\* decoded there.
C26_ValidSpanIsScannedPrefixes ==
    [][PositiveResult
         => /\ bytes_valid' = ScannedSpan(buffer')
            /\ pc' = "idle" =>
                  /\ last' = <<"pull", next_from_buffer(buffer', bytes_valid', 0,
                                                        requested).item>>
                  /\ parser_offset' = IF last'[2][1].ok
                                      THEN usize_from(Bytes(buffer', 0, 4)) ELSE 0]_vars

\* C26's case: a bulk call returned two records at once and the scan stopped
\* at the zero prefix after them.
C26_Witness ==
    /\ pc = "idle"
    /\ result = "entries"
    /\ dirPos = 2
    /\ Len(yielded) = 1
    /\ bytes_valid > parser_offset
    /\ parser_offset > 0
    /\ bytes_valid < buffer.len
    /\ Bytes(buffer, bytes_valid, 4) = ZeroWord

\* C27: when a bulk call returns a positive result, the valid span becomes
\* the length of the records that call wrote, whatever earlier calls left
\* behind them in the buffer.
C27_ValidSpanIsWhatTheCallWrote ==
    [][PositiveResult
         => bytes_valid' = Len(KernelRecords(directory, dirPos, dirPos' - dirPos,
                                             call.attrlist))]_vars

\* C28: when a bulk call returns a positive result, the pull returns an item
\* for it: the stream does not go into the next bulk call with nothing
\* yielded, whatever the length prefix of the first record.
C28_PositiveResultYieldsAnItem ==
    [][PositiveResult => (pc' = "idle" /\ Len(yielded') = Len(yielded) + 1)]_vars

\* C29: a pull that finds the cursor within the valid span and decodes the
\* record there moves the cursor by the length prefix of that record and
\* leaves the valid span, the buffer, the exhausted flag, the other fields of
\* the stream and the kernel's position as they were: no bulk call is issued.
C29_DecodingMovesOnlyTheCursor ==
    [][(pc = "idle" /\ pulls' = pulls + 1 /\ parser_offset < bytes_valid
          /\ pc' = "idle" /\ last'[2] # None /\ last'[2][1].ok)
         => /\ parser_offset' = parser_offset + usize_from(Bytes(buffer, parser_offset, 4))
            /\ UNCHANGED <<buffer, bytes_valid, exhausted, dirfd, requested,
                           follow_symlinks, call, result, kernelVars>>]_vars

\* C29's case: the second pull decoded the second record of the buffer the
\* first pull had filled.
C29_Witness ==
    /\ pc = "idle"
    /\ pulls = 2
    /\ Len(yielded) = 2 /\ yielded[2].ok
    /\ last = <<"pull", Some(yielded[2])>>
    /\ parser_offset > usize_from(Bytes(buffer, 0, 4))
    /\ parser_offset = bytes_valid

\* The items yielded for records: entries and decode errors.
YieldedForRecords == Len(yielded) - SyscallErrors(yielded)

\* C30: the stream is inside a bulk call only within a pull, with the cursor
\* at or past the end of the valid span and the exhausted flag unset; the
\* arguments of a bulk call are set only on the way into one, so the
\* construction issues none; the buffer of a stream changes only in a bulk
\* call; and when a bulk call writes the buffer, an item was yielded for every
\* record the earlier calls had written.
C30_BulkCallOnlyWhenConsumed ==
    [][/\ pc' = "syscall"
             => (pulls' >= 1 /\ parser_offset' >= bytes_valid' /\ ~exhausted')
       /\ call' # call => (pc' = "syscall" /\ pc \in {"idle", "syscall"})
       /\ (pc # "new" /\ buffer' # buffer) => pc = "syscall"
       /\ PositiveResult => YieldedForRecords >= dirPos]_vars

\* C31: in every state of a stream the read cursor is at least 0 and at most
\* the valid-byte count, which is at most the length of the buffer.
C31_CursorWithinValidWithinBuffer ==
    pc \in {"idle", "syscall", "panicked", "dropped"}
        => (0 <= parser_offset /\ parser_offset <= bytes_valid
              /\ bytes_valid <= buffer.len)

\* C31's case: after a refill that followed an interruption and an error, the
\* cursor stands between two records, short of the valid bytes, which end short
\* of the buffer.
C31_Witness ==
    /\ pc = "idle"
    /\ result = "entries"
    /\ SyscallErrors(yielded) >= 1
    /\ 0 < parser_offset /\ parser_offset < bytes_valid
    /\ bytes_valid < buffer.len

\* C32: a caller that goes on pulling a stream over a finite directory, whose
\* bulk calls are not interrupted or failed for ever, is eventually returned
\* end-of-stream, whatever the records hold.  Pulling ends because every pull
\* that returns an entry or a decode error uses up something: the kernel has
\* moved on in the directory, or fewer valid bytes are left after the cursor.
\* (A pull that uses up nothing leaves the stream as it was, and the next pull
\* returns the same item.)
C32_ReturnedItemUsesUpBytes ==
    [][(pc' = "idle" /\ (pc = "syscall" \/ pulls' > pulls)
           /\ last'[1] = "pull" /\ last'[2] # None
           /\ ~IsSyscallError(last'[2][1]))
         => \/ dirPos' > dirPos
            \/ bytes_valid' - parser_offset' < bytes_valid - parser_offset]_vars

\* C33: a record whose length prefix is less than 24, the length of the prefix
\* and the attribute_set, is not decoded into an entry.
C33_ShortRecordIsNoEntry ==
    [][(Trying /\ DeclaredLength(Tried) < 24)
         => (~(last'[2] # None /\ IsEntry(last'[2][1])) /\ dirPos' = dirPos)]_vars

\* C34: a record packed with a modified time of tv_sec seconds and tv_nsec
\* nanoseconds, tv_sec negative included, decodes without a panic to an entry
\* whose modified time is that many seconds and nanoseconds from the epoch.
C34_TimeOfEverySignedPair ==
    [][(Trying /\ Plain(Tried) /\ Whole /\ "modified_time" \in Tried.bits)
         => /\ pc' = "parser"
            /\ last'[2] # None
            /\ IsEntry(last'[2][1])
            /\ last'[2][1].val.modified_time = PackedEntry(Tried).modified_time]_vars

\* The byte span of the record tried, as a buffer of its own.
SpanOfTried ==
    [len |-> DeclaredLength(Tried),
     data |-> SubSeq(buffer.data, parser_offset + 1,
                     parser_offset + DeclaredLength(Tried))]

\* C35: what next_entry returns for a record is what decoding the record's byte
\* span by itself returns, with any requested-attribute set handed to the
\* decoder: it does not depend on the bytes around the span, on the records
\* decoded before or on the request.  The record is one whose length prefix
\* covers its fields and whose name range lies in the buffer.
C35_DecodingDependsOnSpanOnly ==
    [][(Trying /\ DeclaredLength(Tried) >= FieldsEnd(Tried)
          /\ parser_offset + DeclaredLength(Tried) <= bytes_valid
          /\ ("name" \in Tried.bits => RangeInBuffer(RefOf(Tried))))
         => \A req \in Requests :
               last'[2] = next_entry(NewParser(SpanOfTried, DeclaredLength(Tried),
                                               req)).item]_vars

\* C36: a bulk call that fails with an errno other than EINTR leaves the
\* valid-byte count, the read cursor and the exhausted flag as they were.
C36_FailedCallLeavesTheStream ==
    [][(pc = "syscall" /\ result' = "error")
         => /\ bytes_valid' = bytes_valid
            /\ parser_offset' = parser_offset
            /\ exhausted' = exhausted]_vars

\* C36's case: a call has failed on a stream whose buffer held consumed
\* records; the pull returned the Syscall error.
C36_Witness ==
    /\ pc = "idle"
    /\ result = "error"
    /\ last[1] = "pull" /\ last[2] # None /\ IsSyscallError(last[2][1])
    /\ bytes_valid > 0
    /\ parser_offset = bytes_valid
    /\ ~exhausted

====
